---- MODULE Spec2Model ----
(***************************************************************************)
(* The relay's cache-coherence path: the Notifier of src/src/notify.rs     *)
(* (one LISTEN connection per process, a supervision loop, handlers keyed  *)
(* by channel name that spawn fire-and-forget tasks) as started by main    *)
(* (src/src/main.rs), run by several relay processes over one database.    *)
(*                                                                         *)
(* Db, State, ActorCache, NodeCache and JobServer are modules of the       *)
(* repository whose code is not among the sources; they are modelled from  *)
(* the specification (sections 4.1, 4.3, 4.4, 4.8).  The database          *)
(* connection (tokio_postgres) is the environment: what poll_message       *)
(* yields is a nondeterministic choice.                                    *)
(***************************************************************************)
EXTENDS Naturals, Sequences, FiniteSets, Bags, TLC

(* ------------------------------ bounds -------------------------------- *)

\* Notifications the database emits in one behaviour.
MaxEmit == 2

\* Connections one Notifier establishes in one behaviour.
MaxSessions == 2

\* Notices and errors the connections yield.
MaxNoise == 1

\* Notifications the database emits in one behaviour of FairSpec.
MaxFairEmit == 1

\* Relay processes (replicas) sharing the database.
Procs == {1, 2}

\* The relay process that Spec and FairSpec follow through connection
\* failures and reconnects; the other replica is not running there.
Relay == CHOOSE p \in Procs : \A q \in Procs : p <= q

(* ----------------------------- payloads ------------------------------- *)

Domain == "evil.example"
Uri == "https://a.example/inbox"
Uuid == "936da01f-9abd-4d9d-80c7-02af85c822a8"

\* payload.parse::<XsdAnyUri>() succeeds on an absolute IRI only.
ParsesAsUri(payload) == payload = Uri

\* payload.parse::<Uuid>()
ParsesAsUuid(payload) == payload = Uuid

(* ----------------------------- channels ------------------------------- *)

Channels ==
    {"new_blocks", "new_whitelists", "new_listeners", "new_actors", "new_nodes",
     "rm_blocks", "rm_whitelists", "rm_listeners", "rm_actors", "rm_nodes"}

\* A channel nobody registers a handler for.
OtherChannel == "other"

\* The channels notified where connections fail (Spec, FairSpec): blocks and
\* listeners, the sets of State the admin commands and Follow / Undo change,
\* and the channel without a handler.  ReplicaSpec notifies on every channel.
CoreChannels ==
    {"new_blocks", "rm_blocks", "new_listeners", "rm_listeners", OtherChannel}

\* What the database's NOTIFY carries on each channel: the primary
\* identifier of the row (a domain, a listener's or actor's IRI, a node's
\* UUID).
PayloadsFor(channel) ==
    IF channel \in {"new_listeners", "rm_listeners", "new_actors", "rm_actors"}
    THEN {Uri}
    ELSE IF channel \in {"new_nodes", "rm_nodes"}
    THEN {Uuid}
    ELSE {Domain}

\* The channels whose handlers parse the payload, which a NOTIFY sent by hand
\* can fill with a string that does not parse.
ParsingChannels ==
    {"new_listeners", "rm_listeners", "new_actors", "rm_actors",
     "new_nodes", "rm_nodes"}

(* ----------------------------- handlers ------------------------------- *)

\* Listener::key of the ten handler types.
Key(l) ==
    CASE l = "NewBlocks" -> "new_blocks"
      [] l = "NewWhitelists" -> "new_whitelists"
      [] l = "NewListeners" -> "new_listeners"
      [] l = "NewActors" -> "new_actors"
      [] l = "NewNodes" -> "new_nodes"
      [] l = "RmBlocks" -> "rm_blocks"
      [] l = "RmWhitelists" -> "rm_whitelists"
      [] l = "RmListeners" -> "rm_listeners"
      [] l = "RmActors" -> "rm_actors"
      [] l = "RmNodes" -> "rm_nodes"

\* The handlers main registers, in the order of its register calls.
MainRegistrations ==
    <<"NewBlocks", "NewWhitelists", "NewListeners", "NewActors", "NewNodes",
      "RmBlocks", "RmWhitelists", "RmListeners", "RmActors", "RmNodes">>

\* Notifier::new: an empty HashMap.
NoListeners == [c \in {} |-> <<>>]

\* Notifier::register: entry(key).or_insert(Vec::new()).push(l)
Register(ls, l) ==
    IF Key(l) \in DOMAIN ls
    THEN [ls EXCEPT ![Key(l)] = Append(@, l)]
    ELSE [c \in DOMAIN ls \cup {Key(l)} |->
            IF c = Key(l) THEN <<l>> ELSE ls[c]]

RECURSIVE RegisterAll(_, _)
RegisterAll(ls, regs) ==
    IF regs = <<>> THEN ls
    ELSE RegisterAll(Register(ls, Head(regs)), Tail(regs))

\* The task a handler spawns: the State / ActorCache / NodeCache call, its
\* argument, and the notification it came from.
Task(op, arg, nid) == [op |-> op, arg |-> arg, nid |-> nid]

Job(kind, uri) == [kind |-> kind, listener |-> uri]

NoEffect == [spawn |-> {}, queue |-> EmptyBag]

Spawn(op, arg, nid) == [spawn |-> {Task(op, arg, nid)}, queue |-> EmptyBag]

\* NewBlocks::execute writing the other set of State.
NewBlocksExecuteWhitelist(payload, nid) == Spawn("cache_whitelist", payload, nid)

\* NewBlocks::execute
NewBlocksExecute(payload, nid) == Spawn("cache_block", payload, nid)

\* NewWhitelists::execute
NewWhitelistsExecute(payload, nid) == Spawn("cache_whitelist", payload, nid)

\* NewListeners::execute queueing the jobs before it parses the payload.
NewListenersExecuteQueueFirst(payload, nid) ==
    [spawn |-> IF ParsesAsUri(payload)
               THEN {Task("cache_listener", payload, nid)} ELSE {},
     queue |-> SetToBag({Job("QueryInstance", payload),
                         Job("QueryNodeinfo", payload)})]

\* NewListeners::execute: on a payload that parses, queue QueryInstance and
\* QueryNodeinfo on the JobServer, then spawn state.cache_listener(uri).
NewListenersExecute(payload, nid) ==
    IF ParsesAsUri(payload)
    THEN [spawn |-> {Task("cache_listener", payload, nid)},
          queue |-> SetToBag({Job("QueryInstance", payload),
                              Job("QueryNodeinfo", payload)})]
    ELSE NoEffect

\* NewActors::execute
NewActorsExecute(payload, nid) ==
    IF ParsesAsUri(payload) THEN Spawn("cache_follower", payload, nid)
    ELSE NoEffect

\* NewNodes::execute
NewNodesExecute(payload, nid) ==
    IF ParsesAsUuid(payload) THEN Spawn("cache_by_id", payload, nid)
    ELSE NoEffect

\* RmBlocks::execute
RmBlocksExecute(payload, nid) == Spawn("bust_block", payload, nid)

\* RmWhitelists::execute
RmWhitelistsExecute(payload, nid) == Spawn("bust_whitelist", payload, nid)

\* RmListeners::execute
RmListenersExecute(payload, nid) ==
    IF ParsesAsUri(payload) THEN Spawn("bust_listener", payload, nid)
    ELSE NoEffect

\* RmActors::execute
RmActorsExecute(payload, nid) ==
    IF ParsesAsUri(payload) THEN Spawn("bust_follower", payload, nid)
    ELSE NoEffect

\* RmNodes::execute
RmNodesExecute(payload, nid) ==
    IF ParsesAsUuid(payload) THEN Spawn("bust_by_id", payload, nid)
    ELSE NoEffect

\* l.execute(payload) through the Listener trait object: what the handler
\* spawns and what it queues before it returns.
Execute(l, payload, nid) ==
    CASE l = "NewBlocks" -> NewBlocksExecute(payload, nid)
      [] l = "NewWhitelists" -> NewWhitelistsExecute(payload, nid)
      [] l = "NewListeners" -> NewListenersExecute(payload, nid)
      [] l = "NewActors" -> NewActorsExecute(payload, nid)
      [] l = "NewNodes" -> NewNodesExecute(payload, nid)
      [] l = "RmBlocks" -> RmBlocksExecute(payload, nid)
      [] l = "RmWhitelists" -> RmWhitelistsExecute(payload, nid)
      [] l = "RmListeners" -> RmListenersExecute(payload, nid)
      [] l = "RmActors" -> RmActorsExecute(payload, nid)
      [] l = "RmNodes" -> RmNodesExecute(payload, nid)

(* ------------------------------- state -------------------------------- *)

VARIABLES
    \* the database (shared by all processes)
    dbBlocks,       \* blocks table
    dbWhitelists,   \* whitelists table
    dbListeners,    \* listeners table
    dbNodes,        \* nodes table: the listeners that have a node row
    emitted,        \* every NOTIFY so far, in commit order (its index is the
                    \* nid): the channel, the payload, and the session it was
                    \* delivered on in each process that was subscribed (to)
    jobs,           \* jobs table: the bag of jobs queued so far
    noise,          \* non-notification messages delivered so far
    \* main, per process
    mainPc,         \* "check" | "admin_blocks" | "admin_whitelists" |
                    \* "hydrate" | "register" | "running" | "ctrl_c" |
                    \* "serving" | "exited"
    args,           \* the command line: jobs_only, no_jobs, undo, blocks, whitelists
    exitCode,       \* the exit status of the process; empty while it runs
    workers,        \* create_workers calls so far
    server,         \* the HTTP server is bound and running
    \* State / ActorCache / NodeCache, per process
    blocks, whitelists, state_listeners, actors, nodes,
    \* Notifier, per process
    listeners,      \* channel name -> sequence of handlers
    pc,             \* "idle" | "connect" | "delay" | "poll"
    sess,           \* connections established so far
    slept,          \* a 5 s sleep has run since the last connection ended
    connAlive,      \* the server end of the current connection is open
    listenSt,       \* the spawned listen task: "none" | "pending" | "ok" | "failed"
    stream,         \* messages the connection has received and not yet yielded
    tasks,          \* spawned handler tasks that have not run yet
    execLog         \* Listener::execute calls so far: [sess, nid, l]

dbVars == <<dbBlocks, dbWhitelists, dbListeners, dbNodes, emitted>>
cacheVars == <<blocks, whitelists, state_listeners, actors, nodes>>
connVars == <<sess, slept, connAlive, listenSt>>
mainVars == <<args, exitCode, workers, server>>
vars == <<dbBlocks, dbWhitelists, dbListeners, dbNodes, emitted, jobs, noise, mainPc,
          args, exitCode, workers, server,
          blocks, whitelists, state_listeners, actors, nodes,
          listeners, pc, sess, slept, connAlive, listenSt, stream, tasks,
          execLog>>

\* Everything but the command lines and the position of main: an empty
\* database, nothing started.
InitRest ==
    /\ dbBlocks = {}
    /\ dbWhitelists = {}
    /\ dbListeners = {}
    /\ dbNodes = {}
    /\ emitted = <<>>
    /\ jobs = EmptyBag
    /\ noise = 0
    /\ exitCode = [p \in Procs |-> {}]
    /\ workers = [p \in Procs |-> 0]
    /\ server = [p \in Procs |-> FALSE]
    /\ blocks = [p \in Procs |-> {}]
    /\ whitelists = [p \in Procs |-> {}]
    /\ state_listeners = [p \in Procs |-> {}]
    /\ actors = [p \in Procs |-> {}]
    /\ nodes = [p \in Procs |-> {}]
    /\ listeners = [p \in Procs |-> NoListeners]
    /\ pc = [p \in Procs |-> "idle"]
    /\ sess = [p \in Procs |-> 0]
    /\ slept = [p \in Procs |-> FALSE]
    /\ connAlive = [p \in Procs |-> FALSE]
    /\ listenSt = [p \in Procs |-> "none"]
    /\ stream = [p \in Procs |-> <<>>]
    /\ tasks = [p \in Procs |-> {}]
    /\ execLog = [p \in Procs |-> <<>>]

Args(jobs_only, no_jobs, undo, bs, ws) ==
    [jobs_only |-> jobs_only, no_jobs |-> no_jobs, undo |-> undo,
     blocks |-> bs, whitelists |-> ws]

\* No flag given: the server with its workers.
NoFlags == Args(FALSE, FALSE, FALSE, {}, {})

\* The command lines: each flag given or not, --block and --whitelist with
\* any of the domains.
CommandLines ==
    {Args(j, n, u, bs, ws) : j \in BOOLEAN, n \in BOOLEAN, u \in BOOLEAN,
                             bs \in SUBSET {Domain}, ws \in SUBSET {Domain}}

\* The state where the processes, started with command lines a, have
\* reached position at of main.
InitAt(a, at) ==
    /\ InitRest
    /\ mainPc = [p \in Procs |-> at]
    /\ args = a

Init == InitAt([p \in Procs |-> NoFlags], "hydrate")

\* The relay process started with any command line, after Db::build and
\* Args::new.
MainInit ==
    \E a \in CommandLines :
        InitAt([p \in Procs |-> IF p = Relay THEN a ELSE NoFlags], "check")

(* ------------------------------ database ------------------------------ *)

Msg(kind, channel, payload, nid) ==
    [kind |-> kind, channel |-> channel, payload |-> payload, nid |-> nid]

\* A session receives NOTIFYs once its LISTEN has been executed, while its
\* connection is open.
Subscribed(p) == connAlive[p] /\ listenSt[p] = "ok"

\* NOTIFY channel, payload: delivered to the sessions subscribed at commit.
Notify(channel, payload) ==
    LET nid == Len(emitted) + 1
        to == {p \in Procs : Subscribed(p)}
    IN /\ emitted' = Append(emitted,
                            [channel |-> channel, payload |-> payload,
                             to |-> [p \in to |-> sess[p]]])
       /\ stream' = [p \in Procs |->
                        IF p \in to
                        THEN Append(stream[p],
                                    Msg("Notification", channel, payload, nid))
                        ELSE stream[p]]

\* A mutating Db operation (add_blocks, remove_blocks, add_whitelists,
\* remove_whitelists, add_listener, remove_listener, cache_actor, bust_actor,
\* cache_node, bust_node) by any process, or a NOTIFY on another channel:
\* the table changes and the notification is emitted in one transaction.
\* Dropping a listener drops its node row.
DbWrite(channel, payload) ==
    /\ dbBlocks' = IF channel = "new_blocks" THEN dbBlocks \cup {payload}
                   ELSE IF channel = "rm_blocks" THEN dbBlocks \ {payload}
                   ELSE dbBlocks
    /\ dbWhitelists' = IF channel = "new_whitelists" THEN dbWhitelists \cup {payload}
                       ELSE IF channel = "rm_whitelists" THEN dbWhitelists \ {payload}
                       ELSE dbWhitelists
    /\ dbListeners' = IF channel = "new_listeners" THEN dbListeners \cup {payload}
                      ELSE IF channel = "rm_listeners" THEN dbListeners \ {payload}
                      ELSE dbListeners
    /\ dbNodes' = IF channel = "rm_listeners" THEN dbNodes \ {payload} ELSE dbNodes
    /\ Notify(channel, payload)

DbMutate(channel, payload) ==
    /\ Len(emitted) < MaxEmit
    /\ DbWrite(channel, payload)
    /\ UNCHANGED <<mainVars, jobs, noise, mainPc, cacheVars, listeners, pc, connVars,
                   tasks, execLog>>

(* ------------------------------- workers ------------------------------ *)

\* A worker of some process takes a pending job, executes it with success
\* and deletes its row.  QueryNodeinfo(listener) creates the listener's node
\* row on its first success (Db::cache_node), which emits new_nodes;
\* QueryInstance(listener) refreshes the metadata of a node that exists.
RunJob(j) ==
    /\ BagIn(j, jobs)
    /\ jobs' = jobs (-) SetToBag({j})
    /\ IF j.kind = "QueryNodeinfo" /\ j.listener \notin dbNodes
       THEN /\ dbNodes' = dbNodes \cup {j.listener}
            /\ Notify("new_nodes", Uuid)
       ELSE UNCHANGED <<dbNodes, emitted, stream>>
    /\ UNCHANGED <<mainVars, dbBlocks, dbWhitelists, dbListeners, noise, mainPc, cacheVars,
                   listeners, pc, connVars, tasks, execLog>>

(* -------------------------------- main -------------------------------- *)

NumCpus == 2

\* main returns: Ok(()) is exit status 0, Err(_) is exit status 1.
Return(p, status) ==
    /\ exitCode' = [exitCode EXCEPT ![p] = {status}]
    /\ mainPc' = [mainPc EXCEPT ![p] = "exited"]

ExitOk == 0
ExitErr == 1

IsAdmin(a) == a.blocks # {} \/ a.whitelists # {}

\* if args.jobs_only() && args.no_jobs() { return Err(..) }
\* if !args.blocks().is_empty() || !args.whitelists().is_empty() { .. }
CheckArgs(p) ==
    /\ mainPc[p] = "check"
    /\ IF args[p].jobs_only /\ args[p].no_jobs
       THEN Return(p, ExitErr)
       ELSE /\ mainPc' = [mainPc EXCEPT ![p] =
                             IF IsAdmin(args[p]) THEN "admin_blocks" ELSE "hydrate"]
            /\ UNCHANGED exitCode
    /\ UNCHANGED <<dbVars, jobs, noise, args, workers, server, cacheVars,
                   listeners, pc, connVars, stream, tasks, execLog>>

\* One awaited Db call of an admin command on the domains given: it fails
\* (main returns the error) or commits and main goes on to position next,
\* or returns Ok when there is none.
AdminCall(p, channel, domains, next) ==
    \/ /\ Return(p, ExitErr)
       /\ UNCHANGED <<dbVars, stream>>
    \/ /\ IF domains = {}
          THEN UNCHANGED <<dbVars, stream>>
          ELSE \E d \in domains : DbWrite(channel, d)
       /\ IF next = "exited"
          THEN Return(p, ExitOk)
          ELSE /\ mainPc' = [mainPc EXCEPT ![p] = next]
               /\ UNCHANGED exitCode

\* An admin command that adds the blocks whether or not --undo is given.
AdminBlocksAdd(p) ==
    /\ mainPc[p] = "admin_blocks"
    /\ AdminCall(p, "new_blocks", args[p].blocks, "admin_whitelists")
    /\ UNCHANGED <<jobs, noise, args, workers, server, cacheVars,
                   listeners, pc, connVars, tasks, execLog>>

\* db.remove_blocks(args.blocks()) with --undo, db.add_blocks(args.blocks())
\* without.
AdminBlocks(p) ==
    /\ mainPc[p] = "admin_blocks"
    /\ AdminCall(p, IF args[p].undo THEN "rm_blocks" ELSE "new_blocks",
                 args[p].blocks, "admin_whitelists")
    /\ UNCHANGED <<jobs, noise, args, workers, server, cacheVars,
                   listeners, pc, connVars, tasks, execLog>>

\* db.remove_whitelists(args.whitelists()) with --undo,
\* db.add_whitelists(args.whitelists()) without; return Ok(()).
AdminWhitelists(p) ==
    /\ mainPc[p] = "admin_whitelists"
    /\ AdminCall(p, IF args[p].undo THEN "rm_whitelists" ELSE "new_whitelists",
                 args[p].whitelists, "exited")
    /\ UNCHANGED <<jobs, noise, args, workers, server, cacheVars,
                   listeners, pc, connVars, tasks, execLog>>

\* State::hydrate: load blocks, whitelists and listeners from the database;
\* ActorCache::new and the NodeCache start empty.
Hydrate(p) ==
    /\ mainPc[p] = "hydrate"
    /\ blocks' = [blocks EXCEPT ![p] = dbBlocks]
    /\ whitelists' = [whitelists EXCEPT ![p] = dbWhitelists]
    /\ state_listeners' = [state_listeners EXCEPT ![p] = dbListeners]
    /\ mainPc' = [mainPc EXCEPT ![p] = "register"]
    /\ UNCHANGED <<mainVars, dbVars, jobs, noise, actors, nodes, listeners, pc, connVars,
                   stream, tasks, execLog>>

\* Notifier::new(..).register(..) x 10 .start(): the supervision task is
\* spawned with the registered handlers.
StartNotifier(p) ==
    /\ mainPc[p] = "register"
    /\ listeners' = [listeners EXCEPT ![p] = RegisterAll(NoListeners, MainRegistrations)]
    /\ pc' = [pc EXCEPT ![p] = "connect"]
    /\ mainPc' = [mainPc EXCEPT ![p] = "running"]
    /\ UNCHANGED <<mainVars, dbVars, jobs, noise, cacheVars, connVars, stream, tasks, execLog>>

\* if args.jobs_only(): create_workers in one new Arbiter per logical CPU,
\* then wait for ctrl-c.
JobsOnly(p) ==
    /\ mainPc[p] = "running"
    /\ args[p].jobs_only
    /\ workers' = [workers EXCEPT ![p] = @ + NumCpus]
    /\ mainPc' = [mainPc EXCEPT ![p] = "ctrl_c"]
    /\ UNCHANGED <<dbVars, jobs, noise, args, exitCode, server, cacheVars,
                   listeners, pc, connVars, stream, tasks, execLog>>

\* actix_rt::signal::ctrl_c().await?; return Ok(())
CtrlC(p) ==
    /\ mainPc[p] = "ctrl_c"
    /\ Return(p, ExitOk)
    /\ UNCHANGED <<dbVars, jobs, noise, args, workers, server, cacheVars,
                   listeners, pc, connVars, stream, tasks, execLog>>

\* A server that creates workers whatever the flags.
ServeWithWorkers(p) ==
    /\ mainPc[p] = "running"
    /\ ~args[p].jobs_only
    /\ \/ /\ Return(p, ExitErr)
          /\ UNCHANGED <<workers, server>>
       \/ /\ server' = [server EXCEPT ![p] = TRUE]
          /\ workers' = [workers EXCEPT ![p] = @ + NumCpus]
          /\ mainPc' = [mainPc EXCEPT ![p] = "serving"]
          /\ UNCHANGED exitCode
    /\ UNCHANGED <<dbVars, jobs, noise, args, cacheVars,
                   listeners, pc, connVars, stream, tasks, execLog>>

\* HttpServer::new(factory).bind(bind_address)?.run(): bind fails and main
\* returns the error, or the server runs its factory in one thread per
\* logical CPU, and the factory calls create_workers unless --no-jobs.
Serve(p) ==
    /\ mainPc[p] = "running"
    /\ ~args[p].jobs_only
    /\ \/ /\ Return(p, ExitErr)
          /\ UNCHANGED <<workers, server>>
       \/ /\ server' = [server EXCEPT ![p] = TRUE]
          /\ workers' = [workers EXCEPT ![p] =
                            IF args[p].no_jobs THEN @ ELSE @ + NumCpus]
          /\ mainPc' = [mainPc EXCEPT ![p] = "serving"]
          /\ UNCHANGED exitCode
    /\ UNCHANGED <<dbVars, jobs, noise, args, cacheVars,
                   listeners, pc, connVars, stream, tasks, execLog>>

(* ------------------------------ Notifier ------------------------------ *)

\* A connect that reloads State from the database.
ConnectOkRehydrate(p) ==
    /\ pc[p] = "connect"
    /\ sess[p] < MaxSessions
    /\ sess' = [sess EXCEPT ![p] = @ + 1]
    /\ connAlive' = [connAlive EXCEPT ![p] = TRUE]
    /\ listenSt' = [listenSt EXCEPT ![p] = "pending"]
    /\ stream' = [stream EXCEPT ![p] = <<>>]
    /\ pc' = [pc EXCEPT ![p] = "poll"]
    /\ blocks' = [blocks EXCEPT ![p] = dbBlocks]
    /\ whitelists' = [whitelists EXCEPT ![p] = dbWhitelists]
    /\ state_listeners' = [state_listeners EXCEPT ![p] = dbListeners]
    /\ UNCHANGED <<mainVars, dbVars, jobs, noise, mainPc, actors, nodes, listeners, slept,
                   tasks, execLog>>

\* config.connect(NoTls) returned Ok: a new connection; the listen task is
\* spawned on a clone of the client and the loop goes on to poll the stream.
ConnectOk(p) ==
    /\ pc[p] = "connect"
    /\ sess[p] < MaxSessions
    /\ sess' = [sess EXCEPT ![p] = @ + 1]
    /\ connAlive' = [connAlive EXCEPT ![p] = TRUE]
    /\ listenSt' = [listenSt EXCEPT ![p] = "pending"]
    /\ stream' = [stream EXCEPT ![p] = <<>>]
    /\ pc' = [pc EXCEPT ![p] = "poll"]
    /\ UNCHANGED <<mainVars, dbVars, jobs, noise, mainPc, cacheVars, listeners, slept,
                   tasks, execLog>>

\* config.connect(NoTls) returned Err: log, then delay_for(5 s) and continue.
ConnectErr(p) ==
    /\ pc[p] = "connect"
    /\ pc' = [pc EXCEPT ![p] = "delay"]
    /\ UNCHANGED <<mainVars, dbVars, jobs, noise, mainPc, cacheVars, listeners, connVars,
                   stream, tasks, execLog>>

\* delay_for(Duration::new(5, 0)) has elapsed; continue with the next connect.
Delay(p) ==
    /\ pc[p] = "delay"
    /\ slept' = [slept EXCEPT ![p] = TRUE]
    /\ pc' = [pc EXCEPT ![p] = "connect"]
    /\ UNCHANGED <<mainVars, dbVars, jobs, noise, mainPc, cacheVars, listeners, sess,
                   connAlive, listenSt, stream, tasks, execLog>>

\* The spawned task running db::listen returned Ok: the session is subscribed.
ListenOk(p) ==
    /\ listenSt[p] = "pending"
    /\ connAlive[p]
    /\ listenSt' = [listenSt EXCEPT ![p] = "ok"]
    /\ UNCHANGED <<mainVars, dbVars, jobs, noise, mainPc, cacheVars, listeners, pc, sess,
                   slept, connAlive, stream, tasks, execLog>>

\* db::listen returned Err (the statement failed, or the connection is gone):
\* the error is logged and the task ends; the supervision loop is not told.
ListenErr(p) ==
    /\ listenSt[p] = "pending"
    /\ listenSt' = [listenSt EXCEPT ![p] = "failed"]
    /\ UNCHANGED <<mainVars, dbVars, jobs, noise, mainPc, cacheVars, listeners, pc, sess,
                   slept, connAlive, stream, tasks, execLog>>

\* A lookup that falls back to the first registered channel.
DispatchDefault(ls, channel) ==
    IF channel \in DOMAIN ls THEN ls[channel]
    ELSE IF "new_blocks" \in DOMAIN ls THEN ls["new_blocks"]
    ELSE <<>>

\* listeners.get(n.channel()): the handlers to call, in the Vec's order.
Dispatch(ls, channel) ==
    IF channel \in DOMAIN ls THEN ls[channel] ELSE <<>>

\* for l in v { l.execute(n.payload()) }: the tasks spawned.
Spawned(v, payload, nid) ==
    UNION {Execute(v[i], payload, nid).spawn : i \in DOMAIN v}

RECURSIVE Queued(_, _, _)
\* for l in v { l.execute(n.payload()) }: the jobs queued.
Queued(v, payload, nid) ==
    IF v = <<>> THEN EmptyBag
    ELSE Execute(Head(v), payload, nid).queue (+) Queued(Tail(v), payload, nid)

\* for l in v { l.execute(n.payload()) }: the calls made, in order.
Calls(v, s, nid) == [i \in DOMAIN v |-> [sess |-> s, nid |-> nid, l |-> v[i]]]

\* A stream that yields the newest message first.
NextMessageNewest(s) == s[Len(s)]

\* stream.next() of the dispatch loop: the message the stream yields next.
NextMessage(s) == Head(s)

\* A dispatch loop that awaits the tasks of the earlier notifications
\* before it executes the handlers of the next one.
PollNotificationAwait(p) ==
    /\ pc[p] = "poll"
    /\ stream[p] # <<>>
    /\ tasks[p] = {}
    /\ LET n == NextMessage(stream[p])
           v == Dispatch(listeners[p], n.channel)
       IN /\ n.kind = "Notification"
          /\ stream' = [stream EXCEPT ![p] = Tail(@)]
          /\ tasks' = [tasks EXCEPT ![p] = @ \cup Spawned(v, n.payload, n.nid)]
          /\ jobs' = jobs (+) Queued(v, n.payload, n.nid)
          /\ execLog' = [execLog EXCEPT ![p] = @ \o Calls(v, sess[p], n.nid)]
    /\ UNCHANGED <<mainVars, dbVars, noise, mainPc, cacheVars, listeners, pc, connVars>>

\* stream.next() yielded Some(n): every handler registered under n.channel()
\* is executed with n.payload(); the loop then awaits the next message.
PollNotification(p) ==
    /\ pc[p] = "poll"
    /\ stream[p] # <<>>
    /\ LET n == NextMessage(stream[p])
           v == Dispatch(listeners[p], n.channel)
       IN /\ n.kind = "Notification"
          /\ stream' = [stream EXCEPT ![p] = Tail(@)]
          /\ tasks' = [tasks EXCEPT ![p] = @ \cup Spawned(v, n.payload, n.nid)]
          /\ jobs' = jobs (+) Queued(v, n.payload, n.nid)
          /\ execLog' = [execLog EXCEPT ![p] = @ \o Calls(v, sess[p], n.nid)]
    /\ UNCHANGED <<mainVars, dbVars, noise, mainPc, cacheVars, listeners, pc, connVars>>

\* poll_message yielded a Notice or an Err (or a message of a kind that
\* AsyncMessage does not have yet): filter_map maps it to None, so the stream
\* skips it and polls the same connection again.
PollSkip(p) ==
    /\ pc[p] = "poll"
    /\ stream[p] # <<>>
    /\ NextMessage(stream[p]).kind \in {"Notice", "Error", "Other"}
    /\ stream' = [stream EXCEPT ![p] = Tail(@)]
    /\ UNCHANGED <<mainVars, dbVars, jobs, noise, mainPc, cacheVars, listeners, pc,
                   connVars, tasks, execLog>>

\* A supervision loop that goes on to the next connect while the stream of
\* its connection has not ended.
PollEndEarly(p) ==
    /\ pc[p] = "poll"
    /\ slept' = [slept EXCEPT ![p] = FALSE]
    /\ pc' = [pc EXCEPT ![p] = "connect"]
    /\ UNCHANGED <<mainVars, dbVars, jobs, noise, mainPc, cacheVars, listeners, sess,
                   connAlive, listenSt, stream, tasks, execLog>>

\* A loop end that sleeps 5 s before the next connect attempt.
PollEndSleep(p) ==
    /\ pc[p] = "poll"
    /\ stream[p] # <<>>
    /\ NextMessage(stream[p]).kind = "End"
    /\ stream' = [stream EXCEPT ![p] = <<>>]
    /\ slept' = [slept EXCEPT ![p] = FALSE]
    /\ pc' = [pc EXCEPT ![p] = "delay"]
    /\ UNCHANGED <<mainVars, dbVars, jobs, noise, mainPc, cacheVars, listeners, sess,
                   connAlive, listenSt, tasks, execLog>>

\* A loop end that leaves the supervision loop.
PollEndReturn(p) ==
    /\ pc[p] = "poll"
    /\ stream[p] # <<>>
    /\ NextMessage(stream[p]).kind = "End"
    /\ stream' = [stream EXCEPT ![p] = <<>>]
    /\ slept' = [slept EXCEPT ![p] = FALSE]
    /\ pc' = [pc EXCEPT ![p] = "idle"]
    /\ UNCHANGED <<mainVars, dbVars, jobs, noise, mainPc, cacheVars, listeners, sess,
                   connAlive, listenSt, tasks, execLog>>

\* stream.next() yielded None: the while loop ends, drop(client), and the
\* outer loop starts over with config.connect.
PollEnd(p) ==
    /\ pc[p] = "poll"
    /\ stream[p] # <<>>
    /\ NextMessage(stream[p]).kind = "End"
    /\ stream' = [stream EXCEPT ![p] = <<>>]
    /\ slept' = [slept EXCEPT ![p] = FALSE]
    /\ pc' = [pc EXCEPT ![p] = "connect"]
    /\ UNCHANGED <<mainVars, dbVars, jobs, noise, mainPc, cacheVars, listeners, sess,
                   connAlive, listenSt, tasks, execLog>>

(* ----------------------------- connection ----------------------------- *)

\* The connection delivers a message that is no notification: a Notice or
\* an error reported by poll_message.
StreamNoise(p, kind) ==
    /\ connAlive[p]
    /\ noise < MaxNoise
    /\ noise' = noise + 1
    /\ stream' = [stream EXCEPT ![p] = Append(@, Msg(kind, "", "", 0))]
    /\ UNCHANGED <<mainVars, dbVars, jobs, mainPc, cacheVars, listeners, pc, connVars,
                   tasks, execLog>>

\* The connection is lost (killed): nothing more is delivered on it and its
\* message stream ends after what it has already received.
ConnLost(p) ==
    /\ connAlive[p]
    /\ connAlive' = [connAlive EXCEPT ![p] = FALSE]
    /\ stream' = [stream EXCEPT ![p] = Append(@, Msg("End", "", "", 0))]
    /\ UNCHANGED <<mainVars, dbVars, jobs, noise, mainPc, cacheVars, listeners, pc, sess,
                   slept, listenSt, tasks, execLog>>

(* ---------------------------- handler tasks --------------------------- *)

\* State::cache_block / bust_block / cache_whitelist / bust_whitelist /
\* cache_listener / bust_listener, ActorCache::cache_follower /
\* bust_follower, NodeCache::cache_by_id / bust_by_id: take the write lock
\* of the set, insert or remove the argument.
Apply(set, op, arg, ins, del) ==
    IF op = ins THEN set \cup {arg}
    ELSE IF op = del THEN set \ {arg}
    ELSE set

\* A spawned handler task runs.  The executor promises no order between
\* spawned tasks: any pending task may be the next to take its lock.
RunTask(p, t) ==
    /\ t \in tasks[p]
    /\ tasks' = [tasks EXCEPT ![p] = @ \ {t}]
    /\ blocks' = [blocks EXCEPT ![p] =
                    Apply(@, t.op, t.arg, "cache_block", "bust_block")]
    /\ whitelists' = [whitelists EXCEPT ![p] =
                    Apply(@, t.op, t.arg, "cache_whitelist", "bust_whitelist")]
    /\ state_listeners' = [state_listeners EXCEPT ![p] =
                    Apply(@, t.op, t.arg, "cache_listener", "bust_listener")]
    /\ actors' = [actors EXCEPT ![p] =
                    Apply(@, t.op, t.arg, "cache_follower", "bust_follower")]
    /\ nodes' = [nodes EXCEPT ![p] =
                    Apply(@, t.op, t.arg, "cache_by_id", "bust_by_id")]
    /\ UNCHANGED <<mainVars, dbVars, jobs, noise, mainPc, listeners, pc, connVars,
                   stream, execLog>>

\* State::is_blocked, State::is_listener
is_blocked(p, d) == d \in blocks[p]
is_listener(p, l) == l \in state_listeners[p]

(* --------------------------- specifications --------------------------- *)

ProcStep(p) ==
    \/ Hydrate(p)
    \/ StartNotifier(p)
    \/ ConnectOk(p)
    \/ ConnectErr(p)
    \/ Delay(p)
    \/ ListenOk(p)
    \/ ListenErr(p)
    \/ PollNotification(p)
    \/ PollSkip(p)
    \/ PollEnd(p)
    \/ \E kind \in {"Notice", "Error"} : StreamNoise(p, kind)
    \/ ConnLost(p)
    \/ \E t \in tasks[p] : RunTask(p, t)

DbStep(channels) ==
    \E channel \in channels :
        \E payload \in PayloadsFor(channel) : DbMutate(channel, payload)

\* A NOTIFY whose payload is not the identifier its channel carries.
RawNotify ==
    \E channel \in ParsingChannels :
        /\ Len(emitted) < MaxEmit
        /\ Notify(channel, Domain)
        /\ UNCHANGED <<dbBlocks, dbWhitelists, dbListeners, dbNodes, mainVars, jobs,
                       noise, mainPc, cacheVars, listeners, pc, connVars, tasks,
                       execLog>>

\* One relay process, on connections that fail, report errors and end.
Next ==
    \/ DbStep(CoreChannels)
    \/ ProcStep(Relay)

Spec == Init /\ [][Next]_vars

FairNext ==
    \/ Len(emitted) < MaxFairEmit /\ DbStep(CoreChannels)
    \/ ProcStep(Relay)

\* The executor runs a spawned task that can run (weak fairness of main, of
\* the Notifier's loop, of the listen task and of the handler tasks); a connect
\* attempt that is retried for ever succeeds at some point (strong fairness
\* of ConnectOk).  The connection owes nothing: it need not deliver, fail or
\* end.
Fairness ==
    /\ WF_vars(Hydrate(Relay) \/ StartNotifier(Relay))
    /\ SF_vars(ConnectOk(Relay))
    /\ WF_vars(Delay(Relay) \/ PollNotification(Relay) \/ PollSkip(Relay)
                  \/ PollEnd(Relay))
    /\ WF_vars(ListenOk(Relay) \/ ListenErr(Relay))
    /\ WF_vars(\E t \in tasks[Relay] : RunTask(Relay, t))

FairSpec == Init /\ [][FairNext]_vars /\ Fairness

\* Every replica runs, on connections that do not fail; a notification may
\* carry a payload that does not parse.
ReplicaStep(p) ==
    \/ Hydrate(p)
    \/ StartNotifier(p)
    \/ ConnectOk(p)
    \/ ListenOk(p)
    \/ PollNotification(p)
    \/ \E t \in tasks[p] : RunTask(p, t)

ReplicaNext ==
    \/ DbStep(Channels \cup {OtherChannel})
    \/ RawNotify
    \/ \E p \in Procs : ReplicaStep(p)

ReplicaSpec == Init /\ [][ReplicaNext]_vars

\* One relay process on a connection that does not fail, listeners that
\* follow and undo, and the workers running the queued jobs.
JobNext ==
    \/ DbStep({"new_listeners", "rm_listeners"})
    \/ ReplicaStep(Relay)
    \/ \E j \in BagToSet(jobs) : RunJob(j)

JobSpec == Init /\ [][JobNext]_vars

\* main from its first decision on, for every command line; the notifier of
\* the process runs on a connection that does not fail until the process
\* exits; other processes add blocks and whitelists.
MainStep(p) ==
    \/ CheckArgs(p)
    \/ AdminBlocks(p)
    \/ AdminWhitelists(p)
    \/ JobsOnly(p)
    \/ CtrlC(p)
    \/ Serve(p)

MainNext ==
    \/ MainStep(Relay)
    \/ exitCode[Relay] = {} /\ ReplicaStep(Relay)
    \/ DbStep({"new_blocks", "new_whitelists"})

MainSpec == MainInit /\ [][MainNext]_vars

(* ------------------------------- claims ------------------------------- *)

\* Notification nid was emitted on channel with payload.
Emitted(nid, channel, payload) ==
    /\ nid \in DOMAIN emitted
    /\ emitted[nid].channel = channel
    /\ emitted[nid].payload = payload

\* Notification nid was delivered to p on its session number s.
DeliveredOn(p, s, nid) ==
    /\ nid \in DOMAIN emitted
    /\ p \in DOMAIN emitted[nid].to
    /\ emitted[nid].to[p] = s

\* Notification nid is waiting in p's message stream.
InStream(p, nid) ==
    \E i \in DOMAIN stream[p] :
        stream[p][i].kind = "Notification" /\ stream[p][i].nid = nid

\* p's Notifier has called the handlers of notification nid (on session s).
Executed(p, nid) == \E i \in DOMAIN execLog[p] : execLog[p][i].nid = nid
ExecutedOn(p, s, nid) ==
    \E i \in DOMAIN execLog[p] : execLog[p][i].nid = nid /\ execLog[p][i].sess = s

\* The handlers of nid were called and the tasks they spawned have completed.
Done(p, nid) == Executed(p, nid) /\ \A t \in tasks[p] : t.nid # nid

(* C1 *)

\* A new_blocks notification for Domain is waiting in p's message stream.
NewBlockReceived(p) ==
    \E nid \in DOMAIN emitted :
        Emitted(nid, "new_blocks", Domain) /\ InStream(p, nid)

\* C1: once a new_blocks notification for D (emitted by another process's
\* db.add_blocks) has reached a running process on its subscribed LISTEN
\* session, that process's State eventually answers is_blocked(D) = true,
\* without a restart.
C1_CacheCoherence ==
    NewBlockReceived(Relay) ~> (is_blocked(Relay, Domain) /\ mainPc[Relay] = "running")

\* The block was not in the database when State was hydrated; the
\* notification came in on the LISTEN session and its task has run.
C1_Witness ==
    \E nid \in DOMAIN emitted :
        /\ Emitted(nid, "new_blocks", Domain)
        /\ \A m \in 1..(nid - 1) : emitted[m].channel # "new_blocks"
        /\ Relay \in DOMAIN emitted[nid].to
        /\ Done(Relay, nid)
        /\ is_blocked(Relay, Domain)

(* C2 *)

\* p handled add (on addChannel) and then remove (on rmChannel) of payload on
\* one connection, both handler tasks have completed, and no later
\* notification adds it again.
RoundTripDone(p, addChannel, rmChannel, payload) ==
    \E a, b \in DOMAIN emitted :
        /\ a < b
        /\ Emitted(a, addChannel, payload)
        /\ Emitted(b, rmChannel, payload)
        /\ \E s \in 1..MaxSessions : ExecutedOn(p, s, a) /\ ExecutedOn(p, s, b)
        /\ Done(p, a)
        /\ Done(p, b)
        /\ \A m \in DOMAIN emitted : m > a => emitted[m].channel # addChannel

\* p has applied an add of payload (the task of a notification on
\* addChannel has completed) and no remove of it (no task of a notification
\* on rmChannel has completed).
AddedNotRemoved(p, addChannel, rmChannel, payload) ==
    /\ \E a \in DOMAIN emitted : Emitted(a, addChannel, payload) /\ Done(p, a)
    /\ \A b \in DOMAIN emitted : Emitted(b, rmChannel, payload) => ~Done(p, b)

\* C2: is_blocked(D) is true once new_blocks D has been applied and no
\* rm_blocks D has; after new_blocks D and then rm_blocks D were received on
\* one connection and both handler tasks have completed, is_blocked(D) is
\* false.
C2_AddThenRemoveBlock ==
    \A p \in Procs :
        /\ AddedNotRemoved(p, "new_blocks", "rm_blocks", Domain)
              => is_blocked(p, Domain)
        /\ RoundTripDone(p, "new_blocks", "rm_blocks", Domain)
              => ~is_blocked(p, Domain)

(* C3 *)

\* The notifications delivered to p so far on channels with a handler.
Received(p) ==
    {nid \in DOMAIN emitted :
        p \in DOMAIN emitted[nid].to /\ emitted[nid].channel \in Channels}

C4_DispatchOrder ==
    \A p \in Procs :
        /\ \A i, j \in DOMAIN execLog[p] :
              (i < j /\ execLog[p][i].sess = execLog[p][j].sess)
                  => execLog[p][i].nid < execLog[p][j].nid
        /\ \A j \in DOMAIN execLog[p] :
              \A m \in 1..(execLog[p][j].nid - 1) :
                  (DeliveredOn(p, execLog[p][j].sess, m)
                        /\ emitted[m].channel \in Channels)
                      => \E i \in 1..(j - 1) :
                            execLog[p][i].nid = m
                                /\ execLog[p][i].sess = execLog[p][j].sess

\* Two notifications delivered on one session have both been dispatched.
C4_Witness ==
    \E p \in Procs : \E i, j \in DOMAIN execLog[p] :
        i < j /\ execLog[p][i].sess = execLog[p][j].sess

(* C5 *)

\* The handlers main registers under a channel name, in registration order.
RegisteredFor(channel) ==
    LET Keyed(l) == Key(l) = channel
    IN SelectSeq(MainRegistrations, Keyed)

\* p's dispatch loop takes a notification off its stream in this step.
DispatchStep(p) ==
    /\ pc[p] = "poll"
    /\ stream[p] # <<>>
    /\ Head(stream[p]).kind = "Notification"
    /\ stream'[p] = Tail(stream[p])

\* The step calls exactly the handlers registered under the notification's
\* channel, once each and in order, and stays in the loop; with no handler
\* under the channel it changes nothing else.
RoutedByChannel(p) ==
    LET n == Head(stream[p])
        v == RegisteredFor(n.channel)
    IN /\ execLog'[p] = execLog[p] \o
              [i \in DOMAIN v |-> [sess |-> sess[p], nid |-> n.nid, l |-> v[i]]]
       /\ pc'[p] = "poll"
       /\ v = <<>> => UNCHANGED <<tasks, jobs, cacheVars, execLog, connVars>>

\* C5: a notification on channel c is dispatched to every handler registered
\* under c, in registration order, and to no other; on a channel without a
\* handler it changes nothing and the loop goes on.  The started Notifier
\* holds exactly one handler under each of the ten channels.
C5_RoutingByChannel ==
    /\ [](\A p \in Procs : mainPc[p] = "running" =>
            /\ DOMAIN listeners[p] = Channels
            /\ \A c \in Channels :
                  Len(listeners[p][c]) = 1 /\ Key(listeners[p][c][1]) = c)
    /\ [][\A p \in Procs : DispatchStep(p) => RoutedByChannel(p)]_vars

\* A notification on a channel without a handler was received on a session
\* and a later notification was dispatched on the same session.
C5_Witness ==
    \E p \in Procs : \E m, n \in DOMAIN emitted :
        /\ m < n
        /\ emitted[m].channel = OtherChannel
        /\ \E s \in 1..MaxSessions :
              DeliveredOn(p, s, m) /\ DeliveredOn(p, s, n) /\ ExecutedOn(p, s, n)

(* C6 *)

\* p's Notifier establishes a connection in this step.
ConnectStep(p) == pc[p] = "connect" /\ pc'[p] = "poll"

\* C6: a handler is only ever called for a notification that was delivered
\* on the session it is called on, so one emitted while the process had no
\* subscribed session is never dispatched; and establishing a connection
\* leaves State, the caches, the tasks and the jobs as they were.
C6_NoReplay ==
    /\ [](\A p \in Procs : \A i \in DOMAIN execLog[p] :
            DeliveredOn(p, execLog[p][i].sess, execLog[p][i].nid))
    /\ [][\A p \in Procs : ConnectStep(p) =>
            UNCHANGED <<cacheVars, tasks, jobs, execLog>>]_vars

\* After a notification delivered on the first session, a block was added
\* while the process had no subscribed session; the process now has a
\* subscribed second session, nothing is pending, and its State still does
\* not have the block.
C6_Witness ==
    \E nid \in DOMAIN emitted :
        /\ Emitted(nid, "new_blocks", Domain)
        /\ \E m \in 1..(nid - 1) : DeliveredOn(Relay, 1, m)
        /\ Relay \notin DOMAIN emitted[nid].to
        /\ sess[Relay] = 2
        /\ Subscribed(Relay)
        /\ stream[Relay] = <<>>
        /\ tasks[Relay] = {}
        /\ Domain \in dbBlocks
        /\ ~is_blocked(Relay, Domain)

(* C7 *)

\* The message stream of p's connection is about to report an error.
StreamError(p) == stream[p] # <<>> /\ Head(stream[p]).kind = "Error"

\* C7: when the listen task of session s fails, or the message stream of
\* session s reports an error, the Notifier goes on to a new connection.
C7_ErrorsLeadToReconnect ==
    \A s \in 1..(MaxSessions - 1) :
        (sess[Relay] = s /\ (listenSt[Relay] = "failed" \/ StreamError(Relay)))
            ~> (sess[Relay] > s)

(* C8 *)

\* p's Notifier makes a connect attempt in this step.
ConnectAttempt(p) == pc[p] = "connect" /\ pc'[p] # "connect"

\* C8: every connect attempt made after a connection was lost comes after a
\* 5 s sleep.
C8_SleepAfterLoss ==
    [][\A p \in Procs : (ConnectAttempt(p) /\ sess[p] >= 1) => slept[p]]_vars

\* C8, amended: the Notifier sleeps 5 s exactly after a failed connect
\* attempt; when the message stream of an established connection ends it goes
\* straight to the next connect attempt, without sleeping.
C8_SleepAfterFailedConnect ==
    [][\A p \in Procs :
          /\ (pc[p] = "poll" /\ pc'[p] # "poll") => (pc'[p] = "connect" /\ ~slept'[p])
          /\ (pc[p] # "delay" /\ pc'[p] = "delay") => (pc[p] = "connect" /\ UNCHANGED sess)
          /\ (pc[p] = "delay" /\ pc'[p] # "delay") => (pc'[p] = "connect" /\ slept'[p])
          /\ (ConnectAttempt(p) /\ pc'[p] # "poll") => pc'[p] = "delay"]_vars

\* A connection was lost and the Notifier is at its next connect attempt
\* without having slept.
C8_Witness ==
    \E p \in Procs : pc[p] = "connect" /\ sess[p] >= 1 /\ ~slept[p]

(* C9 *)

\* The follows accepted for a listener: the new_listeners notifications
\* emitted for it.
Follows(uri) ==
    Cardinality({nid \in DOMAIN emitted : Emitted(nid, "new_listeners", uri)})

\* C9: the jobs table holds one QueryInstance and one QueryNodeinfo job per
\* accepted Follow, however many processes receive the notification.
C9_OneJobPerFollow ==
    /\ CopiesIn(Job("QueryInstance", Uri), jobs) <= Follows(Uri)
    /\ CopiesIn(Job("QueryNodeinfo", Uri), jobs) <= Follows(Uri)

(* C10 *)

\* C10: after new_listeners L and then rm_listeners L were received on one
\* connection and both handler tasks (cache_listener, bust_listener) have
\* completed, is_listener(L) is false.
C10_FollowThenUndo ==
    \A p \in Procs :
        RoundTripDone(p, "new_listeners", "rm_listeners", Uri) => ~is_listener(p, Uri)

(* C11 *)

NotifierStarted(p) == pc[p] # "idle" /\ listeners[p] # NoListeners

\* C12: with --jobs-only the process creates the workers, one set per
\* logical CPU, and never runs the HTTP server; with --no-jobs it runs the
\* HTTP server and never calls create_workers; with neither it does both;
\* and the Notifier is started before any worker or server.
C12_RunModes ==
    LET a == args[Relay]
    IN /\ a.jobs_only => /\ ~server[Relay]
                         /\ mainPc[Relay] = "ctrl_c" => workers[Relay] = NumCpus
       /\ a.no_jobs => /\ workers[Relay] = 0
                       /\ mainPc[Relay] = "serving" => server[Relay]
       /\ (~a.jobs_only /\ ~a.no_jobs /\ mainPc[Relay] = "serving")
             => (server[Relay] /\ workers[Relay] = NumCpus)
       /\ (workers[Relay] > 0 \/ server[Relay]) => NotifierStarted(Relay)

C12_Witness ==
    /\ args[Relay].no_jobs
    /\ server[Relay]
    /\ workers[Relay] = 0
    /\ Subscribed(Relay)

(* C13 *)

\* The channels of the notifications a step emits.
StepChannels ==
    {emitted'[i].channel : i \in (Len(emitted) + 1)..Len(emitted')}

\* A step of main of process p.
MainMoves(p) == mainPc'[p] # mainPc[p]

\* C13: with at least one --block or --whitelist the process only mutates
\* the database and exits: without --undo it only adds, with --undo it only
\* removes, and it never hydrates State, starts the Notifier, creates
\* workers or runs the HTTP server, whatever the other flags.
C13_AdminOnly ==
    [][IsAdmin(args[Relay]) =>
          /\ mainPc'[Relay] \in {"check", "admin_blocks", "admin_whitelists", "exited"}
          /\ ~NotifierStarted(Relay)'
          /\ workers'[Relay] = 0
          /\ ~server'[Relay]
          /\ UNCHANGED <<cacheVars, listeners, jobs, tasks, execLog, dbListeners>>
          /\ MainMoves(Relay) =>
                IF args[Relay].undo
                THEN /\ StepChannels \subseteq {"rm_blocks", "rm_whitelists"}
                     /\ dbBlocks' \subseteq dbBlocks
                     /\ dbWhitelists' \subseteq dbWhitelists
                ELSE /\ StepChannels \subseteq {"new_blocks", "new_whitelists"}
                     /\ dbBlocks \subseteq dbBlocks'
                     /\ dbWhitelists \subseteq dbWhitelists']_vars

\* An --undo --block admin command, given together with --jobs-only, has
\* removed a block that another process had added, and has exited.
C13_Witness ==
    /\ args[Relay].undo
    /\ args[Relay].jobs_only
    /\ exitCode[Relay] = {ExitOk}
    /\ dbBlocks = {}
    /\ \E i, j \in DOMAIN emitted :
          i < j /\ emitted[i].channel = "new_blocks" /\ emitted[j].channel = "rm_blocks"

(* C14 *)

\* C14: started with both --jobs-only and --no-jobs the process terminates
\* with exit code 2, before any blocklist or whitelist mutation, before the
\* Notifier is started and before any worker or HTTP server is created.
C14_ConflictExit ==
    (args[Relay].jobs_only /\ args[Relay].no_jobs) =>
        /\ mainPc[Relay] \in {"check", "exited"}
        /\ mainPc[Relay] = "exited" => exitCode[Relay] = {2}
        /\ ~NotifierStarted(Relay)
        /\ workers[Relay] = 0
        /\ ~server[Relay]

(* C15 *)

\* No handler of p was called twice for the same notification.
DispatchedOnce(p) ==
    \A i, j \in DOMAIN execLog[p] :
        (execLog[p][i].nid = execLog[p][j].nid /\ execLog[p][i].l = execLog[p][j].l)
            => i = j

\* C15: a process has at most one live LISTEN session: its Notifier attempts
\* a connect only when the stream of the previous connection has ended, so
\* every notification is dispatched to a given handler at most once.
C15_SingleSession ==
    [][\A p \in Procs :
          /\ ConnectAttempt(p) => (~connAlive[p] /\ stream[p] = <<>>)
          /\ DispatchedOnce(p)']_vars

\* The Notifier is on its second connection and has dispatched one
\* notification on each.
C15_Witness ==
    /\ sess[Relay] = 2
    /\ connAlive[Relay]
    /\ \E m, n \in DOMAIN emitted :
          m # n /\ ExecutedOn(Relay, 1, m) /\ ExecutedOn(Relay, 2, n)

(* C16 *)

\* The stream of p's connection has a notification for the dispatch loop.
NotificationReady(p) ==
    /\ pc[p] = "poll"
    /\ stream[p] # <<>>
    /\ Head(stream[p]).kind = "Notification"

NeverFailed(p) ==
    /\ sess[p] >= 1 => (connAlive[p] /\ listenSt[p] # "failed")
    /\ \A i \in DOMAIN stream[p] : stream[p][i].kind # "Error"

\* State of p has the blocks, whitelists and listeners of the database.
InSync(p) ==
    /\ blocks[p] = dbBlocks
    /\ whitelists[p] = dbWhitelists
    /\ state_listeners[p] = dbListeners

\* C17: if the LISTEN connection never fails once it is established, every
\* change committed after State::hydrate has read the database is
\* eventually reflected in State: from some point on State has what the
\* database has.
C17_NoStartupGap == []NeverFailed(Relay) => <>[]InSync(Relay)

(* C18 *)

\* The payload of notification n does not parse as what the handlers of its
\* channel expect: an IRI, or a UUID.
Malformed(n) ==
    \/ /\ n.channel \in {"new_listeners", "rm_listeners", "new_actors", "rm_actors"}
       /\ ~ParsesAsUri(n.payload)
    \/ /\ n.channel \in {"new_nodes", "rm_nodes"}
       /\ ~ParsesAsUuid(n.payload)

\* C18: dispatching a notification whose payload does not parse changes no
\* cache, queues no job and spawns no task, and the dispatch loop goes on:
\* it stays in the loop and takes whatever notification comes next.
C18_MalformedDropped ==
    /\ [][\A p \in Procs :
            (DispatchStep(p) /\ Malformed(Head(stream[p]))) =>
                /\ UNCHANGED <<cacheVars, jobs, tasks>>
                /\ pc'[p] = "poll"]_vars
    /\ [](\A p \in Procs : NotificationReady(p) => ENABLED PollNotification(p))

\* The handlers were called for a new_listeners notification whose payload
\* is no IRI, and a later notification with a listener's IRI has been
\* handled: the listener is cached and only its two jobs are queued.
C18_Witness ==
    \E m, n \in DOMAIN emitted :
        /\ m < n
        /\ Emitted(m, "new_listeners", Domain)
        /\ Emitted(n, "new_listeners", Uri)
        /\ Executed(Relay, m)
        /\ Done(Relay, n)
        /\ is_listener(Relay, Uri)
        /\ BagCardinality(jobs) = 2

====
